---------------------------- MODULE Spec2Model ----------------------------
(***************************************************************************)
(* Export task orchestration of backend/app.py: the in-memory task store,  *)
(* the idempotency map, the background full run (process_export_task),    *)
(* the selective retry run (perform_retry_images) and the request         *)
(* handlers, interleaved at the await points of the code.                 *)
(*                                                                         *)
(* Conventions.  Python None is 0 for a task id, "None" for an optional   *)
(* string and <<>> for the optional rendered document.  A document is a   *)
(* sequence of symbols; an image reference is one symbol of it.  Time is  *)
(* counted in ticks; EXPORT_EXPIRY_SECONDS, MAX_HTML_SIZE and             *)
(* MAX_IMAGES_COUNT are the program's constants scaled to the model's     *)
(* units (ticks, symbols, assets).  Byte sizes (ImageInfo.size,           *)
(* stats.total_size) and created_at / links / mode are not modelled.      *)
(*                                                                         *)
(* Five specifications: Spec, the program; SpecEnv, the program with an   *)
(* environment that may remove an archive file; SpecLive, the program     *)
(* under an event loop that runs every coroutine; SpecFetch, one call of  *)
(* download_single_image on every sequence of attempt outcomes;           *)
(* SpecExtract, the extraction and the cap on every document up to        *)
(* MAX_HTML_SIZE symbols.                                                 *)
(***************************************************************************)
EXTENDS Integers, Sequences, FiniteSets, TLC

VARIABLES
    now,                  \* datetime.now(timezone.utc), in ticks
    task,                 \* the ExportTask objects ever created, by id
    export_tasks,         \* keys of the dict export_tasks
    idempotency_records,  \* dict idempotency_records: key -> task id (0: no entry)
    nextId,               \* ids handed out so far by generate_export_id, plus one
    zip,                  \* EXPORT_TEMP_DIR/<id>.zip: "absent" | "complete" | "partial"
    dir,                  \* EXPORT_TEMP_DIR/<id>/ exists
    bg,                   \* the process_export_task coroutine of each task
    retry,                \* the perform_retry_images coroutines of each task
    issued,               \* history: what create_export last answered per key
    popped,               \* history: the id line 927 last dropped from the map, per key
    fetch,                \* a call of download_single_image on its own (SpecFetch)
    extraction            \* extraction and cap of a document on their own (SpecExtract)

vars == <<now, task, export_tasks, idempotency_records, nextId, zip, dir, bg, retry, issued, popped, fetch, extraction>>

(* ------------------------------ bounds -------------------------------- *)
\* ids generate_export_id hands out, tasks in the store at once, coroutines
\* (full runs and retry runs) alive at once, clock ticks
MaxTasks == 2
MaxStored == 1
MaxRunning == 1
MaxTime == 2

(* ------------------------- program constants -------------------------- *)
EXPORT_EXPIRY_SECONDS == 1
IMAGE_DOWNLOAD_RETRY_COUNT == 2
MAX_HTML_SIZE == 3
MAX_IMAGES_COUNT == 2

None == "None"
Ids == 1..MaxTasks
Keys == {"k1"}

(* ------------------------------ documents ----------------------------- *)
\* Symbols of a document: text, remote references, inline payloads.
RemoteSyms == {"http://h/a.png", "http://h/b"}
\* "data:ok" decodes; "data:bad" makes base64.b64decode raise.
DataSyms == {"data:image/png;base64,ok", "data:image/png;base64,bad"}

Docs ==
    { <<"t", "t", "t">>,
      <<"data:image/png;base64,bad", "http://h/b">>,
      <<"data:image/png;base64,ok", "http://h/a.png">>,
      <<"t", "t", "t", "t">> }

OptionSets ==
    [download_images : BOOLEAN, rewrite_failed_images : {"keep_remote", "remove"}]

\* The elements of the sequence s that are in S, order and repetitions kept.
RECURSIVE SelectSym(_, _)
SelectSym(s, S) ==
    IF s = <<>> THEN <<>>
    ELSE IF Head(s) \in S THEN <<Head(s)>> \o SelectSym(Tail(s), S)
         ELSE SelectSym(Tail(s), S)

Range(s) == {s[i] : i \in DOMAIN s}

\* Every ordering of the finite set S as a sequence without repetition.
Orderings(S) ==
    {s \in [1..Cardinality(S) -> S] : Range(s) = S}

\* extract_data_images: every match in document order, repetitions kept.
extract_data_images(html) == SelectSym(html, DataSyms)

\* extract_image_urls: list(urls) of a set; the order of a Python set of
\* strings is not determined by the program, so every order is possible.
extract_image_urls(html) == Orderings(Range(html) \cap RemoteSyms)

Take(s, n) == SubSeq(s, 1, IF n < Len(s) THEN n ELSE Len(s))

(* ------------------------------ ImageInfo ----------------------------- *)
ImageInfo(url) ==
    [url |-> url, filename |-> None, status |-> "pending", error |-> None,
     retry_count |-> 0]

RECURSIVE zfill(_, _)
zfill(s, w) == IF Len(s) >= w THEN s ELSE zfill("0" \o s, w)

\* pad_width = len(str(total)) if total > 0 else 2; pad_width = max(pad_width, 2)
pad_width(total) ==
    LET w == IF total > 0 THEN Len(ToString(total)) ELSE 2
    IN  IF w > 2 THEN w ELSE 2

\* f"images/{str(index).zfill(pad_width)}{ext}"
NumberedName(index, total, ext) ==
    "images/" \o zfill(ToString(index), pad_width(total)) \o ext

\* get_file_extension: a recognised suffix of the URL, else the content
\* type, else ".jpg".
get_file_extension(url, content_type) ==
    IF url = "http://h/a.png" THEN ".png"
    ELSE IF content_type = "image/gif" THEN ".gif"
    ELSE IF content_type = "image/png" THEN ".png"
    ELSE ".jpg"

\* save_data_image(data_url, save_path, index, total); dirOk: save_path exists.
save_data_image(data_url, dirOk, index, total) ==
    IF data_url = "data:image/png;base64,bad"
    THEN [url |-> data_url, filename |-> None, status |-> "failed",
          error |-> "Incorrect padding", retry_count |-> 1]
    ELSE IF ~dirOk
    THEN [url |-> data_url, filename |-> None, status |-> "failed",
          error |-> "[Errno 2] No such file or directory", retry_count |-> 1]
    ELSE [url |-> data_url,
          filename |-> NumberedName(index, total, get_file_extension("", "image/png")),
          status |-> "downloaded", error |-> None, retry_count |-> 1]

(* ------------------------ download_single_image ----------------------- *)
\* What one GET attempt meets: a 2xx response ("ok", with its content type),
\* httpx.TimeoutException, httpx.HTTPStatusError (with the status code),
\* another httpx.RequestError, or any other exception.
Ok(ct) == [kind |-> "ok", code |-> 200, ctype |-> ct]
Timeout == [kind |-> "timeout", code |-> 0, ctype |-> ""]
Http(c) == [kind |-> "http", code |-> c, ctype |-> ""]
NetErr == [kind |-> "neterr", code |-> 0, ctype |-> ""]
OtherExc == [kind |-> "exc", code |-> 0, ctype |-> ""]

\* if status_code < 500 and status_code != 429: break
\* (RetryableMutant: every error status retried, the variant C7 excludes.)
RetryableMutant(status_code) == status_code >= 400
Retryable(status_code) == ~(status_code < 500 /\ status_code # 429)

FailedInfo(url, err, attempts_made) ==
    [url |-> url, filename |-> None, status |-> "failed",
     error |-> IF err = None \/ err = "" THEN "Download failed" ELSE err,
     retry_count |-> attempts_made]

\* The loop "for attempt in range(IMAGE_DOWNLOAD_RETRY_COUNT + 1)" from
\* iteration `attempt` on; rs[n] is what the n-th GET meets.
RECURSIVE attempt_loop(_, _, _, _, _, _, _)
attempt_loop(url, dirOk, index, total, rs, attempt, last_error) ==
    IF attempt > IMAGE_DOWNLOAD_RETRY_COUNT
    THEN FailedInfo(url, last_error, attempt)
    ELSE LET attempts_made == attempt + 1
             r == rs[attempts_made]
         IN  CASE r.kind = "ok" ->
                    IF dirOk
                    THEN [url |-> url,
                          filename |-> NumberedName(index, total,
                                          get_file_extension(url, r.ctype)),
                          status |-> "downloaded", error |-> None,
                          retry_count |-> attempts_made]
                    \* write_bytes raises: "except Exception", break
                    ELSE FailedInfo(url, "[Errno 2] No such file or directory",
                                    attempts_made)
               [] r.kind = "timeout" ->
                    attempt_loop(url, dirOk, index, total, rs, attempt + 1,
                                 "Download timeout")
               [] r.kind = "http" ->
                    IF Retryable(r.code)
                    THEN attempt_loop(url, dirOk, index, total, rs, attempt + 1,
                                      "HTTP " \o ToString(r.code))
                    ELSE FailedInfo(url, "HTTP " \o ToString(r.code), attempts_made)
               [] r.kind = "neterr" ->
                    attempt_loop(url, dirOk, index, total, rs, attempt + 1,
                                 "Request error: connection reset")
               [] OTHER ->
                    FailedInfo(url, "unexpected error", attempts_made)

download_single_image(url, dirOk, index, total, rs) ==
    attempt_loop(url, dirOk, index, total, rs, 0, None)

\* The responses the lifecycle model lets a remote reference meet.
RespSeqs ==
    { <<Ok("image/gif"), Ok(""), Ok("")>>,
      <<Http(500), Timeout, Http(404)>> }

(* --------------------------- naming & rewrite ------------------------- *)
\* The value build_url_mapping stores for one image.
MappingValue(options, image) ==
    IF image.status = "downloaded" /\ image.filename # None /\ image.filename # ""
    THEN image.filename
    ELSE IF options.rewrite_failed_images = "keep_remote" THEN image.url
         ELSE ""

\* build_url_mapping: a dict; a key keeps the place of its first insertion
\* and the value of its last.
RECURSIVE MappingKeys(_)
MappingKeys(urls) ==
    IF urls = <<>> THEN <<>>
    ELSE LET rest == MappingKeys(SubSeq(urls, 1, Len(urls) - 1))
             u == urls[Len(urls)]
         IN  IF u \in Range(rest) THEN rest ELSE Append(rest, u)

build_url_mapping(t) ==
    LET keys == MappingKeys([i \in DOMAIN t.images |-> t.images[i].url])
        last(u) == CHOOSE i \in DOMAIN t.images :
                      /\ t.images[i].url = u
                      /\ \A j \in DOMAIN t.images : t.images[j].url = u => j <= i
    IN  [k \in DOMAIN keys |->
            <<keys[k], MappingValue(t.options, t.images[last(keys[k])])>>]

\* re.sub(re.escape(original_url), local_path, result) on a document whose
\* references are single symbols.
re_sub(original_url, local_path, result) ==
    [i \in DOMAIN result |->
        IF result[i] = original_url THEN local_path ELSE result[i]]

\* "if local_path:" skips an empty replacement.
ReplaceOne(result, original_url, local_path) ==
    IF local_path # "" THEN re_sub(original_url, local_path, result) ELSE result

RECURSIVE replace_loop(_, _, _)
replace_loop(result, url_mapping, k) ==
    IF k > Len(url_mapping) THEN result
    ELSE replace_loop(ReplaceOne(result, url_mapping[k][1], url_mapping[k][2]),
                      url_mapping, k + 1)

replace_image_urls(html, url_mapping) == replace_loop(html, url_mapping, 1)

wrap_html_document(html) ==
    IF html # <<>> /\ html[1] = "<!doctype html>" THEN html
    ELSE <<"<!DOCTYPE html><body>">> \o html \o <<"</body></html>">>

(* ------------------------------ the store ----------------------------- *)
\* ExportTask(...) as create_export constructs it.
ExportTask(created, html, options) ==
    [status |-> "queued",
     progress |-> [done |-> 0, total |-> 0],
     stats |-> [images_found |-> 0, images_downloaded |-> 0, images_failed |-> 0],
     expires_at |-> created + EXPORT_EXPIRY_SECONDS,
     html |-> html,
     processed_html |-> <<>>,
     images |-> <<>>,
     options |-> options,
     error_message |-> None]

NoRun == [pc |-> "none", data_image_urls |-> <<>>, image_urls |-> <<>>, results |-> <<>>]
\* image_info = ImageInfo(url=url, status="downloading"): a fetch in flight.
Downloading(url) == [ImageInfo(url) EXCEPT !.status = "downloading"]

Manifest(t) == <<t.images, t.stats>>

\* What create_export answered: the id, expires_at, and whether the task
\* was an existing one (the idempotency short-circuit).
NoIssue == [id |-> 0, expires_at |-> 0, replayed |-> FALSE]
NoFetch == [url |-> "", dirOk |-> FALSE, rs |-> <<>>, out |-> ImageInfo("")]
NoExtraction ==
    [html |-> <<>>, done |-> FALSE, found |-> <<>>, order |-> <<>>, images |-> <<>>]

\* A handler's reply: code, the HTTP status; body, what is read of the content.
Reply(code, body) == [code |-> code, body |-> body]

\* An ExportTask object lives while the dict or a suspended coroutine refers
\* to it (a scheduled process_export_task holds the id only); the objects
\* tk restricted to those.
Collect(tk, stored, runs, retries) ==
    [i \in {j \in DOMAIN tk : j \in stored \/ runs[j].pc = "gather" \/ retries[j] # <<>>}
        |-> tk[i]]

\* The tasks with a scheduled or suspended coroutine.
Running == {i \in Ids : bg[i].pc \in {"scheduled", "gather"} \/ retry[i] # <<>>}

Init ==
    /\ now = 0
    /\ task = <<>>
    /\ export_tasks = {}
    /\ idempotency_records = [k \in Keys |-> 0]
    /\ nextId = 1
    /\ zip = [i \in Ids |-> "absent"]
    /\ dir = [i \in Ids |-> FALSE]
    /\ bg = [i \in Ids |-> NoRun]
    /\ retry = [i \in Ids |-> <<>>]
    /\ issued = [k \in Keys |-> NoIssue]
    /\ popped = [k \in Keys |-> 0]
    /\ fetch = NoFetch
    /\ extraction = NoExtraction

\* The clock advances between any two steps.
Tick ==
    /\ now < MaxTime
    /\ now' = now + 1
    /\ UNCHANGED <<task, export_tasks, idempotency_records, nextId, zip, dir, bg, retry, issued, popped, fetch, extraction>>

\* cleanup_expired_tasks: the ids it removes, and the store, the idempotency
\* map, the archives and the working directories it leaves.
expired_ids == {i \in export_tasks : task[i].expires_at < now}

\* (cleanup_expired_tasksMutant: without lines 744-747, the variant C13
\* excludes.)
cleanup_expired_tasksMutant ==
    LET gone == expired_ids
    IN  [stored |-> export_tasks \ gone,
         records |-> idempotency_records,
         zip |-> [i \in Ids |-> IF i \in gone THEN "absent" ELSE zip[i]],
         dir |-> [i \in Ids |-> IF i \in gone THEN FALSE ELSE dir[i]]]
cleanup_expired_tasks ==
    LET gone == expired_ids
    IN  [stored |-> export_tasks \ gone,
         records |-> IF gone # {}
                     THEN [k \in Keys |-> IF idempotency_records[k] \in gone THEN 0
                                          ELSE idempotency_records[k]]
                     ELSE idempotency_records,
         zip |-> [i \in Ids |-> IF i \in gone THEN "absent" ELSE zip[i]],
         dir |-> [i \in Ids |-> IF i \in gone THEN FALSE ELSE dir[i]]]

\* Lines 906-910: the key is given, mapped, and its task is in the store and
\* not expired (evaluated after the sweep).
\* (IdempotencyHitMutant: "<" for "<=", the variant C1 excludes.)
IdempotencyHitMutant(idempotency_key, stored, records) ==
    /\ idempotency_key # None /\ idempotency_key # ""
    /\ records[idempotency_key] # 0
    /\ records[idempotency_key] \in stored
    /\ now < task[records[idempotency_key]].expires_at
IdempotencyHit(idempotency_key, stored, records) ==
    /\ idempotency_key # None /\ idempotency_key # ""
    /\ records[idempotency_key] # 0
    /\ records[idempotency_key] \in stored
    /\ now <= task[records[idempotency_key]].expires_at

\* The reply of create_export: PayloadTooLarge, or Accepted with the id of
\* the existing or of the new task.
\* (create_export_replyMutant: ">=" for ">", the variant C11 excludes.)
create_export_replyMutant(idempotency_key, html) ==
    LET swept == cleanup_expired_tasks
    IN  IF Len(html) >= MAX_HTML_SIZE THEN Reply(422, NoIssue)
        ELSE IF IdempotencyHit(idempotency_key, swept.stored, swept.records)
        THEN Reply(202, [id |-> swept.records[idempotency_key],
                         expires_at |-> task[swept.records[idempotency_key]].expires_at,
                         replayed |-> TRUE])
        ELSE Reply(202, [id |-> nextId, expires_at |-> now + EXPORT_EXPIRY_SECONDS,
                         replayed |-> FALSE])
\* (create_export_replyStaleMutant: without the test of the store at line
\* 910, a mapped key is answered with its mapping, the variant C31 excludes.)
create_export_replyStaleMutant(idempotency_key, html) ==
    LET swept == cleanup_expired_tasks
        keyed == idempotency_key # None /\ idempotency_key # ""
    IN  IF Len(html) > MAX_HTML_SIZE THEN Reply(422, NoIssue)
        ELSE IF keyed /\ swept.records[idempotency_key] # 0
        THEN Reply(202, [id |-> swept.records[idempotency_key],
                         expires_at |-> issued[idempotency_key].expires_at,
                         replayed |-> TRUE])
        ELSE Reply(202, [id |-> nextId, expires_at |-> now + EXPORT_EXPIRY_SECONDS,
                         replayed |-> FALSE])
create_export_reply(idempotency_key, html) ==
    LET swept == cleanup_expired_tasks
    IN  IF Len(html) > MAX_HTML_SIZE THEN Reply(422, NoIssue)
        ELSE IF IdempotencyHit(idempotency_key, swept.stored, swept.records)
        THEN Reply(202, [id |-> swept.records[idempotency_key],
                         expires_at |-> task[swept.records[idempotency_key]].expires_at,
                         replayed |-> TRUE])
        ELSE Reply(202, [id |-> nextId, expires_at |-> now + EXPORT_EXPIRY_SECONDS,
                         replayed |-> FALSE])

create_export(idempotency_key, html, options) ==
    LET swept == cleanup_expired_tasks
        reply == create_export_reply(idempotency_key, html)
        keyed == idempotency_key # None /\ idempotency_key # ""
    IN  IF reply.code = 422
        THEN UNCHANGED vars
        ELSE /\ zip' = swept.zip
             /\ dir' = swept.dir
             /\ issued' = IF keyed
                          THEN [issued EXCEPT ![idempotency_key] = reply.body]
                          ELSE issued
             /\ popped' = IF keyed
                          THEN [popped EXCEPT ![idempotency_key] =
                                  IF IdempotencyHit(idempotency_key, swept.stored, swept.records)
                                  THEN 0 ELSE swept.records[idempotency_key]]
                          ELSE popped
             /\ UNCHANGED <<now, retry, fetch, extraction>>
             /\ IF IdempotencyHit(idempotency_key, swept.stored, swept.records)
                THEN /\ export_tasks' = swept.stored
                     /\ idempotency_records' = swept.records
                     /\ task' = Collect(task, swept.stored, bg, retry)
                     /\ UNCHANGED <<nextId, bg>>
                ELSE /\ nextId <= MaxTasks
                     /\ Cardinality(swept.stored) < MaxStored
                     /\ Cardinality(Running) < MaxRunning
                     /\ task' = Collect(
                                  [i \in DOMAIN task \cup {nextId} |->
                                     IF i = nextId THEN ExportTask(now, html, options)
                                     ELSE task[i]],
                                  swept.stored \cup {nextId}, bg, retry)
                     /\ export_tasks' = swept.stored \cup {nextId}
                     /\ idempotency_records' =
                           IF keyed
                           THEN [swept.records EXCEPT ![idempotency_key] = nextId]
                           ELSE swept.records
                     /\ bg' = [bg EXCEPT ![nextId] = [NoRun EXCEPT !.pc = "scheduled"]]
                     /\ nextId' = nextId + 1

(* ------------------------- process_export_task ------------------------ *)
\* I/O outcomes of the packaging steps: none fails, a write of index.html or
\* manifest.json raises OSError, or writing the archive raises part-way.
Faults == {"none", "write", "zip"}

\* stats after one more result, as the two result loops count it.
\* (CountResultMutant: a failed result is not counted, the variant C17
\* excludes.)
CountResultMutant(stats, result) ==
    IF result.status = "downloaded"
    THEN [stats EXCEPT !.images_downloaded = @ + 1]
    ELSE stats
CountResult(stats, result) ==
    IF result.status = "downloaded"
    THEN [stats EXCEPT !.images_downloaded = @ + 1]
    ELSE [stats EXCEPT !.images_failed = @ + 1]

\* "for i, data_url in enumerate(data_image_urls)" from position i (1-based) on.
RECURSIVE decode_loop(_, _, _, _)
decode_loop(t, data_image_urls, total_images, i) ==
    IF i > Len(data_image_urls) THEN t
    ELSE LET result == save_data_image(data_image_urls[i], TRUE, i, total_images)
         IN  decode_loop([t EXCEPT !.images[i] = result,
                                   !.progress.done = i,
                                   !.stats = CountResult(@, result)],
                         data_image_urls, total_images, i + 1)

\* "for i, result in enumerate(results)" after the gather, from position i on.
RECURSIVE results_loop(_, _, _, _)
results_loop(t, results, ndata, i) ==
    IF i > Len(results) THEN t
    ELSE results_loop([t EXCEPT !.images[i + ndata] = results[i],
                                !.progress.done = i + ndata,
                                !.stats = CountResult(@, results[i])],
                      results, ndata, i + 1)

\* Lines 675-719: rewrite, index.html, manifest.json, the archive, rmtree,
\* Completed; "except Exception" marks the task Failed.  Gives the task,
\* the archive and the working directory afterwards.
\* (FullTailMutant: a Failed asset aborts the run, the variant C6 excludes.)
FullTailMutant(t, zipNow, dirOk, fault) ==
    LET processed_html ==
            wrap_html_document(replace_image_urls(t.html, build_url_mapping(t)))
        failed == {i \in DOMAIN t.images : t.images[i].status = "failed"}
    IN  IF failed # {}
        THEN [t |-> [t EXCEPT !.status = "failed",
                              !.error_message =
                                  t.images[CHOOSE i \in failed : TRUE].error],
              zip |-> zipNow, dir |-> dirOk]
        ELSE [t |-> [t EXCEPT !.processed_html = processed_html,
                              !.status = "completed"],
              zip |-> "complete", dir |-> FALSE]

\* (FullTailMkdirMutant: index.html written with its directory created anew,
\* the variant C30 excludes.)
FullTailMkdirMutant(t, zipNow, dirOk, fault) ==
    LET processed_html ==
            wrap_html_document(replace_image_urls(t.html, build_url_mapping(t)))
    IN  IF fault = "write"
        THEN [t |-> [t EXCEPT !.status = "failed",
                              !.error_message = "[Errno 28] No space left on device"],
              zip |-> zipNow, dir |-> TRUE]
        ELSE IF fault = "zip"
        THEN [t |-> [t EXCEPT !.processed_html = processed_html,
                              !.status = "failed",
                              !.error_message = "[Errno 28] No space left on device"],
              zip |-> "partial", dir |-> TRUE]
        ELSE [t |-> [t EXCEPT !.processed_html = processed_html,
                              !.status = "completed"],
              zip |-> "complete", dir |-> FALSE]

\* (FullTailProcessingMutant: without the "except Exception" of lines
\* 717-719, the variant C28 excludes.)
FullTailProcessingMutant(t, zipNow, dirOk, fault) ==
    LET processed_html ==
            wrap_html_document(replace_image_urls(t.html, build_url_mapping(t)))
    IN  IF ~dirOk THEN [t |-> t, zip |-> zipNow, dir |-> FALSE]
        ELSE IF fault = "write" THEN [t |-> t, zip |-> zipNow, dir |-> TRUE]
        ELSE IF fault = "zip"
        THEN [t |-> [t EXCEPT !.processed_html = processed_html],
              zip |-> "partial", dir |-> TRUE]
        ELSE [t |-> [t EXCEPT !.processed_html = processed_html,
                              !.status = "completed"],
              zip |-> "complete", dir |-> FALSE]
FullTail(t, zipNow, dirOk, fault) ==
    LET processed_html ==
            wrap_html_document(replace_image_urls(t.html, build_url_mapping(t)))
    IN  IF ~dirOk
        THEN [t |-> [t EXCEPT !.status = "failed",
                              !.error_message = "[Errno 2] No such file or directory"],
              zip |-> zipNow, dir |-> FALSE]
        ELSE IF fault = "write"
        THEN [t |-> [t EXCEPT !.status = "failed",
                              !.error_message = "[Errno 28] No space left on device"],
              zip |-> zipNow, dir |-> TRUE]
        ELSE IF fault = "zip"
        THEN [t |-> [t EXCEPT !.processed_html = processed_html,
                              !.status = "failed",
                              !.error_message = "[Errno 28] No space left on device"],
              zip |-> "partial", dir |-> TRUE]
        ELSE [t |-> [t EXCEPT !.processed_html = processed_html,
                              !.status = "completed"],
              zip |-> "complete", dir |-> FALSE]

\* Lines 615-633: extraction, the cap, the counters, the fresh asset list.
CapData(data) ==
    IF Len(data) >= MAX_IMAGES_COUNT THEN Take(data, MAX_IMAGES_COUNT) ELSE data

\* (CapUrlsMutant: the cap applied to the remote references alone, the
\* variant C19 excludes.)
CapUrlsMutant(data, urls) ==
    IF Len(data) >= MAX_IMAGES_COUNT THEN <<>>
    ELSE Take(urls, MAX_IMAGES_COUNT)
CapUrls(data, urls) ==
    IF Len(data) >= MAX_IMAGES_COUNT THEN <<>>
    ELSE Take(urls, MAX_IMAGES_COUNT - Len(data))

InitAssets(t, data_image_urls, image_urls) ==
    LET total_images == Len(data_image_urls) + Len(image_urls)
        all == data_image_urls \o image_urls
    IN  [t EXCEPT !.status = "processing",
                  !.stats.images_found = total_images,
                  !.progress.total = total_images,
                  !.images = [i \in 1..total_images |-> ImageInfo(all[i])]]

\* process_export_task from its first line to its first suspension (the
\* gather over the remote fetches) or, when nothing is fetched, to its end.
process_export_task(task_id) ==
    /\ bg[task_id].pc = "scheduled"
    /\ UNCHANGED <<now, export_tasks, idempotency_records, nextId, retry, issued, popped, fetch, extraction>>
    /\ IF task_id \notin export_tasks
       THEN /\ bg' = [bg EXCEPT ![task_id].pc = "done"]
            /\ UNCHANGED <<task, zip, dir>>
       ELSE \E order \in extract_image_urls(task[task_id].html), fault \in Faults :
            LET found == extract_data_images(task[task_id].html)
                data_image_urls == CapData(found)
                image_urls == CapUrls(found, order)
                total_images == Len(data_image_urls) + Len(image_urls)
                t0 == InitAssets(task[task_id], data_image_urls, image_urls)
                fetches == t0.options.download_images /\ total_images > 0
                t1 == IF fetches
                      THEN decode_loop(t0, data_image_urls, total_images, 1)
                      ELSE t0
            IN  IF fetches /\ image_urls # <<>>
                THEN /\ fault = "none"
                     /\ task' = [task EXCEPT ![task_id] = t1]
                     /\ dir' = [dir EXCEPT ![task_id] = TRUE]
                     /\ bg' = [bg EXCEPT ![task_id] =
                                 [pc |-> "gather",
                                  data_image_urls |-> data_image_urls,
                                  image_urls |-> image_urls,
                                  results |-> [i \in DOMAIN image_urls |->
                                                 Downloading(image_urls[i])]]]
                     /\ UNCHANGED zip
                ELSE LET end == FullTail(t1, zip[task_id], TRUE, fault)
                     IN  /\ task' = [task EXCEPT ![task_id] = end.t]
                         /\ zip' = [zip EXCEPT ![task_id] = end.zip]
                         /\ dir' = [dir EXCEPT ![task_id] = end.dir]
                         /\ bg' = [bg EXCEPT ![task_id].pc = "done"]

\* "i + 1 + len(data_image_urls)": the ordinal of the i-th remote reference
\* (i counted from 1 here).
\* (remote_ordinalMutant: the inline assets not counted, the variant C9 excludes.)
remote_ordinalMutant(i, ndata) == i
remote_ordinal(i, ndata) == i + ndata

\* One download_single_image of the gather returns.
fetch_returns(task_id, i) ==
    /\ bg[task_id].pc = "gather"
    /\ i \in DOMAIN bg[task_id].results
    /\ bg[task_id].results[i].status = "downloading"
    /\ \E rs \in RespSeqs :
          bg' = [bg EXCEPT ![task_id].results[i] =
                    download_single_image(
                        bg[task_id].image_urls[i], dir[task_id],
                        remote_ordinal(i, Len(bg[task_id].data_image_urls)),
                        Len(task[task_id].images), rs)]
    /\ UNCHANGED <<now, task, export_tasks, idempotency_records, nextId, zip, dir,
                   retry, issued, popped, fetch, extraction>>

\* The gather is complete: process_export_task resumes and runs to its end.
gather_returns(task_id) ==
    /\ bg[task_id].pc = "gather"
    /\ \A i \in DOMAIN bg[task_id].results :
          bg[task_id].results[i].status # "downloading"
    /\ \E fault \in Faults :
          LET t1 == results_loop(task[task_id], bg[task_id].results,
                                 Len(bg[task_id].data_image_urls), 1)
              end == FullTail(t1, zip[task_id], dir[task_id], fault)
          IN  /\ task' = Collect([task EXCEPT ![task_id] = end.t], export_tasks,
                                  [bg EXCEPT ![task_id].pc = "done"], retry)
              /\ zip' = [zip EXCEPT ![task_id] = end.zip]
              /\ dir' = [dir EXCEPT ![task_id] = end.dir]
    /\ bg' = [bg EXCEPT ![task_id] = [NoRun EXCEPT !.pc = "done"]]
    /\ UNCHANGED <<now, export_tasks, idempotency_records, nextId, retry, issued, popped, fetch, extraction>>

(* --------------------------- simple handlers -------------------------- *)
\* Every handler is its reply, a function of the state it is called in, and
\* its effect on the state.

Expired(id) == now > task[id].expires_at

\* The task as a handler sees it after its lazy expiry check.
\* (ObservedMutant: without the expiry check, the variant C15 excludes.)
ObservedMutant(id) == task[id]
Observed(id) ==
    IF Expired(id) THEN [task[id] EXCEPT !.status = "expired"] ELSE task[id]

get_export_status_reply(export_id) ==
    IF export_id \notin export_tasks THEN Reply(404, <<>>)
    ELSE LET t == Observed(export_id)
         IN  Reply(200,
                [status |-> t.status,
                 progress |-> IF t.status = "processing" THEN <<t.progress>> ELSE <<>>,
                 stats |-> IF t.status \in {"processing", "completed"}
                           THEN <<t.stats>> ELSE <<>>,
                 error |-> IF t.status = "failed" THEN t.error_message ELSE None])

get_export_status(export_id) ==
    /\ UNCHANGED <<now, export_tasks, idempotency_records, nextId, zip, dir, bg,
                   retry, issued, popped, fetch, extraction>>
    /\ IF export_id \notin export_tasks
       THEN UNCHANGED task
       ELSE task' = [task EXCEPT ![export_id] = Observed(export_id)]

\* The checks of download_archive, in their order.
\* (download_archive_replyMutant: without the Conflict for Queued and
\* Processing, the variant C3 excludes.)
download_archive_replyMutant(export_id) ==
    IF export_id \notin export_tasks THEN Reply(404, <<>>)
    ELSE IF Expired(export_id) THEN Reply(410, <<>>)
    ELSE IF task[export_id].status = "failed" THEN Reply(500, <<>>)
    ELSE IF zip[export_id] = "absent" THEN Reply(404, <<"no archive">>)
    ELSE Reply(200, <<"file", zip[export_id]>>)
download_archive_reply(export_id) ==
    IF export_id \notin export_tasks THEN Reply(404, <<>>)
    ELSE IF Expired(export_id) THEN Reply(410, <<>>)
    ELSE IF task[export_id].status = "processing" \/ task[export_id].status = "queued"
    THEN Reply(409, <<>>)
    ELSE IF task[export_id].status = "failed" THEN Reply(500, <<>>)
    ELSE IF zip[export_id] = "absent" THEN Reply(404, <<"no archive">>)
    ELSE Reply(200, <<"file", zip[export_id]>>)

download_archive(export_id) ==
    /\ UNCHANGED <<now, export_tasks, idempotency_records, nextId, zip, dir, bg,
                   retry, issued, popped, fetch, extraction>>
    /\ IF download_archive_reply(export_id).code = 410
       THEN task' = [task EXCEPT ![export_id].status = "expired"]
       ELSE UNCHANGED task

get_manifest_reply(export_id) ==
    IF export_id \notin export_tasks THEN Reply(404, <<>>)
    ELSE IF task[export_id].status \notin {"completed", "processing"}
    THEN Reply(409, <<>>)
    ELSE Reply(200, Manifest(task[export_id]))

\* (get_export_document_replyMutant: without the Conflict of lines
\* 1238-1243, the variant C16 excludes.)
get_export_document_replyMutant(export_id) ==
    IF export_id \notin export_tasks THEN Reply(404, <<>>)
    ELSE IF task[export_id].processed_html = <<>> THEN Reply(404, <<"no document">>)
    ELSE Reply(200, task[export_id].processed_html)
get_export_document_reply(export_id) ==
    IF export_id \notin export_tasks THEN Reply(404, <<>>)
    ELSE IF task[export_id].status # "completed" THEN Reply(409, <<>>)
    ELSE IF task[export_id].processed_html = <<>> THEN Reply(404, <<"no document">>)
    ELSE Reply(200, task[export_id].processed_html)

get_manifest(export_id) == UNCHANGED vars

get_export_document(export_id) == UNCHANGED vars

delete_export_reply(export_id) ==
    IF export_id \notin export_tasks THEN Reply(404, <<>>) ELSE Reply(204, <<>>)

\* (delete_exportMutant: without the unlink of the archive, the variant C12
\* excludes.)
delete_exportMutant(export_id) ==
    /\ UNCHANGED <<now, idempotency_records, nextId, bg, retry, issued, popped, fetch, extraction>>
    /\ IF export_id \notin export_tasks
       THEN UNCHANGED <<task, export_tasks, zip, dir>>
       ELSE /\ task' = Collect(task, export_tasks \ {export_id}, bg, retry)
            /\ zip' = zip
            /\ dir' = [dir EXCEPT ![export_id] = FALSE]
            /\ export_tasks' = export_tasks \ {export_id}
delete_export(export_id) ==
    /\ UNCHANGED <<now, idempotency_records, nextId, bg, retry, issued, popped, fetch, extraction>>
    /\ IF export_id \notin export_tasks
       THEN UNCHANGED <<task, export_tasks, zip, dir>>
       ELSE /\ task' = Collect(task, export_tasks \ {export_id}, bg, retry)
            /\ zip' = [zip EXCEPT ![export_id] = "absent"]
            /\ dir' = [dir EXCEPT ![export_id] = FALSE]
            /\ export_tasks' = export_tasks \ {export_id}

(* ------------------------- perform_retry_images ----------------------- *)
\* The indices (1-based: index i is ordinal i) of the images in status st,
\* ascending, from index i on.
RECURSIVE IndicesWhere(_, _, _)
IndicesWhere(images, st, i) ==
    IF i > Len(images) THEN <<>>
    ELSE (IF images[i].status = st THEN <<i>> ELSE <<>>)
         \o IndicesWhere(images, st, i + 1)

\* The loop of lines 803-814 from position k of retry_indices on, as far as
\* it runs without suspending: an inline payload is decoded at once, a
\* remote reference is awaited.
RECURSIVE retry_loop(_, _, _, _, _)
retry_loop(t, retry_indices, results, k, dirOk) ==
    IF k > Len(retry_indices) THEN [t |-> t, results |-> results, k |-> k]
    ELSE LET index == retry_indices[k]
             url == t.images[index].url
         IN  IF url \in DataSyms
             THEN retry_loop([t EXCEPT !.progress.done = @ + 1], retry_indices,
                      Append(results,
                             <<index, save_data_image(url, dirOk, index, Len(t.images))>>),
                      k + 1, dirOk)
             ELSE [t |-> t, results |-> results, k |-> k]

\* "for index, result in results: task.images[index] = result"
\* (apply_resultsMutant: the result stored at its position in results
\* instead of its index, the variant C23 excludes.)
RECURSIVE apply_resultsMutant(_, _, _)
apply_resultsMutant(images, results, k) ==
    IF k > Len(results) THEN images
    ELSE apply_resultsMutant([images EXCEPT ![k] = results[k][2]], results, k + 1)
RECURSIVE apply_results(_, _, _)
apply_results(images, results, k) ==
    IF k > Len(results) THEN images
    ELSE apply_results([images EXCEPT ![results[k][1]] = results[k][2]], results, k + 1)

\* Lines 837-839.
recount(images) ==
    [images_found |-> Len(images),
     images_downloaded |-> Len(IndicesWhere(images, "downloaded", 1)),
     images_failed |-> Len(IndicesWhere(images, "failed", 1))]

\* Lines 816-868 of perform_retry_images: what it leaves and how it ends
\* (exc: "none", or the exception that leaves it).
\* (RetryTailMutant: without the rmtree of line 862, the variant C29
\* excludes.)
RetryTailMutant(t, results, zipNow, dirOk, fault) ==
    LET t1 == [t EXCEPT !.images = apply_results(@, results, 1)]
        processed_html ==
            wrap_html_document(replace_image_urls(t1.html, build_url_mapping(t1)))
        t2 == [t1 EXCEPT !.stats = recount(t1.images)]
    IN  IF ~dirOk
        THEN [t |-> t1, zip |-> zipNow, dir |-> FALSE, exc |-> "FileNotFoundError",
              msg |-> "[Errno 2] No such file or directory"]
        ELSE IF fault = "write"
        THEN [t |-> t1, zip |-> zipNow, dir |-> TRUE, exc |-> "OSError",
              msg |-> "[Errno 28] No space left on device"]
        ELSE IF fault = "zip"
        THEN [t |-> t2, zip |-> "partial", dir |-> TRUE, exc |-> "OSError",
              msg |-> "[Errno 28] No space left on device"]
        ELSE [t |-> [t2 EXCEPT !.processed_html = processed_html,
                               !.status = "completed"],
              zip |-> "complete", dir |-> TRUE, exc |-> "none", msg |-> None]
RetryTail(t, results, zipNow, dirOk, fault) ==
    LET t1 == [t EXCEPT !.images = apply_results(@, results, 1)]
        processed_html ==
            wrap_html_document(replace_image_urls(t1.html, build_url_mapping(t1)))
        t2 == [t1 EXCEPT !.stats = recount(t1.images)]
    IN  IF ~dirOk
        THEN [t |-> t1, zip |-> zipNow, dir |-> FALSE, exc |-> "FileNotFoundError",
              msg |-> "[Errno 2] No such file or directory"]
        ELSE IF fault = "write"
        THEN [t |-> t1, zip |-> zipNow, dir |-> TRUE, exc |-> "OSError",
              msg |-> "[Errno 28] No space left on device"]
        ELSE IF fault = "zip"
        THEN [t |-> t2, zip |-> "partial", dir |-> TRUE, exc |-> "OSError",
              msg |-> "[Errno 28] No space left on device"]
        ELSE [t |-> [t2 EXCEPT !.processed_html = processed_html,
                               !.status = "completed"],
              zip |-> "complete", dir |-> FALSE, exc |-> "none", msg |-> None]

\* The try/except of retry_failed_images and retry_single_image around a
\* run that has reached the end of its loop: the task it leaves.
\* (AfterRetryMutant: an asset that is still Failed fails the task, the
\* variant C24 excludes.)
AfterRetryMutant(end) ==
    IF end.exc = "FileNotFoundError" THEN end.t
    ELSE IF end.exc = "none"
    THEN IF \E i \in DOMAIN end.t.images : end.t.images[i].status = "failed"
         THEN [end.t EXCEPT !.status = "failed", !.error_message = "Download failed"]
         ELSE end.t
    ELSE [end.t EXCEPT !.status = "failed", !.error_message = end.msg]
AfterRetry(end) ==
    IF end.exc \in {"none", "FileNotFoundError"} THEN end.t
    ELSE [end.t EXCEPT !.status = "failed", !.error_message = end.msg]

\* ... and the reply: the manifest, NotFound, or the "Retry Failed" problem.
RetryReply(end) ==
    IF end.exc = "none" THEN Reply(200, Manifest(end.t))
    ELSE IF end.exc = "FileNotFoundError" THEN Reply(404, <<"no archive">>)
    ELSE Reply(500, <<end.msg>>)

finish_retry(id, t, results, dirOk, fault, left) ==
    LET end == RetryTail(t, results, zip[id], dirOk, fault)
    IN  /\ zip' = [zip EXCEPT ![id] = end.zip]
        /\ dir' = [dir EXCEPT ![id] = end.dir]
        /\ retry' = [retry EXCEPT ![id] = left]
        /\ task' = Collect([task EXCEPT ![id] = AfterRetry(end)], export_tasks, bg,
                           [retry EXCEPT ![id] = left])

\* "await perform_retry_images(task, retry_indices)" from its first line to
\* its first suspension or, when only inline payloads are retried, to its
\* end.  Called with the archive present.
start_retry(id, retry_indices) ==
    \E fault \in Faults :
       LET t1 == [task[id] EXCEPT !.status = "processing",
                                  !.progress = [done |-> 0,
                                                total |-> Len(retry_indices)]]
           lp == retry_loop(t1, retry_indices, <<>>, 1, TRUE)
       IN  IF lp.k > Len(retry_indices)
           THEN finish_retry(id, lp.t, lp.results, TRUE, fault, retry[id])
           ELSE /\ fault = "none"
                /\ task' = [task EXCEPT ![id] = lp.t]
                /\ dir' = [dir EXCEPT ![id] = TRUE]
                /\ retry' = [retry EXCEPT ![id] =
                                Append(@, [retry_indices |-> retry_indices,
                                           k |-> lp.k, results |-> lp.results])]
                /\ UNCHANGED zip

(* --------------------------- retry handlers --------------------------- *)
\* What the checks of retry_failed_images and retry_single_image (task
\* found, not expired, Completed) and of perform_retry_images (archive
\* present) decide before the retry loop, for the indices to retry
\* (<<>>: none): the reply when the request ends there, "run" otherwise.
\* (RetryGateMutant: Conflict for Processing only, the variant C4 excludes.)
RetryGateMutant(export_id) ==
    IF export_id \notin export_tasks THEN Reply(404, <<>>)
    ELSE IF Expired(export_id) THEN Reply(410, <<>>)
    ELSE IF task[export_id].status = "processing" THEN Reply(409, <<>>)
    ELSE Reply(0, <<"admitted">>)
\* (RetryGateProcessingMutant: Processing admitted like Completed, the
\* variant C20 excludes.)
RetryGateProcessingMutant(export_id) ==
    IF export_id \notin export_tasks THEN Reply(404, <<>>)
    ELSE IF Expired(export_id) THEN Reply(410, <<>>)
    ELSE IF task[export_id].status \notin {"completed", "processing"}
    THEN Reply(409, <<>>)
    ELSE Reply(0, <<"admitted">>)
RetryGate(export_id) ==
    IF export_id \notin export_tasks THEN Reply(404, <<>>)
    ELSE IF Expired(export_id) THEN Reply(410, <<>>)
    ELSE IF task[export_id].status # "completed" THEN Reply(409, <<>>)
    ELSE Reply(0, <<"admitted">>)

\* (retry_failed_images_replyMutant: without the return for an empty
\* failed_indices, the variant C5 excludes.)
retry_failed_images_replyMutant(export_id) ==
    LET gate == RetryGate(export_id)
    IN  IF gate.code # 0 THEN gate
        ELSE IF zip[export_id] = "absent" THEN Reply(404, <<"no archive">>)
        ELSE Reply(0, <<"run">>)
retry_failed_images_reply(export_id) ==
    LET gate == RetryGate(export_id)
    IN  IF gate.code # 0 THEN gate
        ELSE IF IndicesWhere(task[export_id].images, "failed", 1) = <<>>
        THEN Reply(200, Manifest(task[export_id]))
        ELSE IF zip[export_id] = "absent" THEN Reply(404, <<"no archive">>)
        ELSE Reply(0, <<"run">>)

retry_failed_images(export_id) ==
    /\ UNCHANGED <<now, export_tasks, idempotency_records, nextId, bg, issued, popped, fetch, extraction>>
    /\ LET reply == retry_failed_images_reply(export_id)
       IN  IF reply.code = 410
           THEN /\ task' = [task EXCEPT ![export_id].status = "expired"]
                /\ UNCHANGED <<zip, dir, retry>>
           ELSE IF reply.code # 0
           THEN UNCHANGED <<task, zip, dir, retry>>
           ELSE start_retry(export_id,
                            IndicesWhere(task[export_id].images, "failed", 1))

\* next(index for index, image in enumerate(task.images) if image.url == url);
\* 0 stands for StopIteration.
\* (target_indexMutant: the first asset when none matches, the variant C14
\* excludes.)
target_indexMutant(images, url) ==
    IF \E i \in DOMAIN images : images[i].url = url
    THEN CHOOSE i \in DOMAIN images :
            /\ images[i].url = url
            /\ \A j \in DOMAIN images : images[j].url = url => i <= j
    ELSE IF images # <<>> THEN 1 ELSE 0
target_index(images, url) ==
    IF \E i \in DOMAIN images : images[i].url = url
    THEN CHOOSE i \in DOMAIN images :
            /\ images[i].url = url
            /\ \A j \in DOMAIN images : images[j].url = url => i <= j
    ELSE 0

\* (retry_single_image_replyMutant: without the test of the archive, the
\* variant C10 excludes.)
retry_single_image_replyMutant(export_id, url) ==
    LET gate == RetryGate(export_id)
    IN  IF gate.code # 0 THEN gate
        ELSE LET target == target_index(task[export_id].images, url)
             IN  IF target = 0 THEN Reply(404, <<"no image">>)
                 ELSE IF task[export_id].images[target].status # "failed"
                 THEN Reply(409, <<"not failed">>)
                 ELSE Reply(0, <<"run">>)
retry_single_image_reply(export_id, url) ==
    LET gate == RetryGate(export_id)
    IN  IF gate.code # 0 THEN gate
        ELSE LET target == target_index(task[export_id].images, url)
             IN  IF target = 0 THEN Reply(404, <<"no image">>)
                 ELSE IF task[export_id].images[target].status # "failed"
                 THEN Reply(409, <<"not failed">>)
                 ELSE IF zip[export_id] = "absent" THEN Reply(404, <<"no archive">>)
                 ELSE Reply(0, <<"run">>)

retry_single_image(export_id, url) ==
    /\ UNCHANGED <<now, export_tasks, idempotency_records, nextId, bg, issued, popped, fetch, extraction>>
    /\ LET reply == retry_single_image_reply(export_id, url)
       IN  IF reply.code = 410
           THEN /\ task' = [task EXCEPT ![export_id].status = "expired"]
                /\ UNCHANGED <<zip, dir, retry>>
           ELSE IF reply.code # 0
           THEN UNCHANGED <<task, zip, dir, retry>>
           ELSE start_retry(export_id,
                            <<target_index(task[export_id].images, url)>>)

\* "result = await task_item" returns in the n-th retry run of the task with
\* the responses rs: the run as its loop leaves it at its next suspension or
\* at its end...
\* (retry_resumesMutant: without "task.progress.done += 1", the variant C22
\* excludes.)
retry_resumesMutant(id, n, rs) ==
    LET run == retry[id][n]
        index == run.retry_indices[run.k]
        t == task[id]
        result == download_single_image(t.images[index].url, dir[id], index,
                                        Len(t.images), rs)
    IN  retry_loop(t, run.retry_indices,
                   Append(run.results, <<index, result>>), run.k + 1, dir[id])
retry_resumes(id, n, rs) ==
    LET run == retry[id][n]
        index == run.retry_indices[run.k]
        t == task[id]
        result == download_single_image(t.images[index].url, dir[id], index,
                                        Len(t.images), rs)
    IN  retry_loop([t EXCEPT !.progress.done = @ + 1], run.retry_indices,
                   Append(run.results, <<index, result>>), run.k + 1, dir[id])

\* ... and the step: the run goes on to its next suspension or to its end.
retry_fetch_returns(id, n) ==
    /\ n \in DOMAIN retry[id]
    /\ UNCHANGED <<now, export_tasks, idempotency_records, nextId, bg, issued, popped, fetch, extraction>>
    /\ \E rs \in RespSeqs, fault \in Faults :
          LET run == retry[id][n]
              lp == retry_resumes(id, n, rs)
              others == [m \in 1..(Len(retry[id]) - 1) |->
                            IF m < n THEN retry[id][m] ELSE retry[id][m + 1]]
          IN  IF lp.k > Len(run.retry_indices)
              THEN finish_retry(id, lp.t, lp.results, dir[id], fault, others)
              ELSE /\ fault = "none"
                   /\ task' = [task EXCEPT ![id] = lp.t]
                   /\ retry' = [retry EXCEPT ![id][n] =
                                   [run EXCEPT !.k = lp.k, !.results = lp.results]]
                   /\ UNCHANGED <<zip, dir>>

(* ------------------------------ the system ---------------------------- *)
Requested == RemoteSyms \cup DataSyms

Next ==
    \/ Tick
    \/ \E k \in Keys \cup {None}, html \in Docs, options \in OptionSets :
          create_export(k, html, options)
    \/ \E id \in Ids : process_export_task(id)
    \/ \E id \in Ids, i \in 1..MAX_IMAGES_COUNT : fetch_returns(id, i)
    \/ \E id \in Ids : gather_returns(id)
    \/ \E id \in Ids : get_export_status(id)
    \/ \E id \in Ids : download_archive(id)
    \/ \E id \in Ids : get_manifest(id)
    \/ \E id \in Ids : get_export_document(id)
    \/ \E id \in Ids : delete_export(id)
    \/ \E id \in Ids : retry_failed_images(id)
    \/ \E id \in Ids, url \in Requested : retry_single_image(id, url)
    \/ \E id \in Ids, n \in 1..MaxStored : retry_fetch_returns(id, n)

Spec == Init /\ [][Next]_vars

(* ------------------- the environment of the archive ------------------- *)
\* perform_retry_images and download_archive test zip_path.exists(): the
\* archive of a stored task may be removed from EXPORT_TEMP_DIR by something
\* other than this program.
archive_removed(id) ==
    /\ id \in export_tasks
    /\ zip[id] # "absent"
    /\ zip' = [zip EXCEPT ![id] = "absent"]
    /\ UNCHANGED <<now, task, export_tasks, idempotency_records, nextId, dir, bg,
                   retry, issued, popped, fetch, extraction>>

NextEnv ==
    \/ Next
    \/ \E id \in Ids : archive_removed(id)

SpecEnv == Init /\ [][NextEnv]_vars

(* -------------------- download_single_image, alone -------------------- *)
\* One call of download_single_image on every sequence of attempt outcomes.
Outcomes == {Ok("image/gif"), Timeout, Http(404), Http(429), Http(500), NetErr, OtherExc}
AllRespSeqs == [1..(IMAGE_DOWNLOAD_RETRY_COUNT + 1) -> Outcomes]

InitFetch ==
    /\ now = 0
    /\ task = <<>>
    /\ export_tasks = {}
    /\ idempotency_records = [k \in Keys |-> 0]
    /\ nextId = 1
    /\ zip = [i \in Ids |-> "absent"]
    /\ dir = [i \in Ids |-> FALSE]
    /\ bg = [i \in Ids |-> NoRun]
    /\ retry = [i \in Ids |-> <<>>]
    /\ issued = [k \in Keys |-> NoIssue]
    /\ popped = [k \in Keys |-> 0]
    /\ extraction = NoExtraction
    /\ \E url \in RemoteSyms, dirOk \in BOOLEAN, rs \in AllRespSeqs :
          fetch = [url |-> url, dirOk |-> dirOk, rs |-> rs, out |-> Downloading(url)]

call_download_single_image ==
    /\ fetch.out.status = "downloading"
    /\ fetch' = [fetch EXCEPT !.out =
                    download_single_image(fetch.url, fetch.dirOk, 1, 1, fetch.rs)]
    /\ UNCHANGED <<now, task, export_tasks, idempotency_records, nextId, zip, dir,
                   bg, retry, issued, popped, extraction>>

SpecFetch == InitFetch /\ [][call_download_single_image]_vars

(* ----------------------- extraction and cap, alone -------------------- *)
\* Lines 616-633 of process_export_task on every document of at most
\* MAX_HTML_SIZE symbols: the two extractors, the cap, the asset list.
Symbols == {"t"} \cup RemoteSyms \cup DataSyms
AllDocs == UNION {[1..n -> Symbols] : n \in 0..MAX_HTML_SIZE}

InitExtract ==
    /\ now = 0
    /\ task = <<>>
    /\ export_tasks = {}
    /\ idempotency_records = [k \in Keys |-> 0]
    /\ nextId = 1
    /\ zip = [i \in Ids |-> "absent"]
    /\ dir = [i \in Ids |-> FALSE]
    /\ bg = [i \in Ids |-> NoRun]
    /\ retry = [i \in Ids |-> <<>>]
    /\ issued = [k \in Keys |-> NoIssue]
    /\ popped = [k \in Keys |-> 0]
    /\ fetch = NoFetch
    /\ \E html \in AllDocs : extraction = [NoExtraction EXCEPT !.html = html]

call_extract ==
    /\ ~extraction.done
    /\ \E order \in extract_image_urls(extraction.html) :
          LET found == extract_data_images(extraction.html)
              t == InitAssets(ExportTask(0, extraction.html,
                                         [download_images |-> TRUE,
                                          rewrite_failed_images |-> "keep_remote"]),
                              CapData(found), CapUrls(found, order))
          IN  extraction' = [html |-> extraction.html, done |-> TRUE, found |-> found,
                             order |-> order,
                             images |-> [i \in DOMAIN t.images |-> t.images[i].url]]
    /\ UNCHANGED <<now, task, export_tasks, idempotency_records, nextId, zip, dir,
                   bg, retry, issued, popped, fetch>>

SpecExtract == InitExtract /\ [][call_extract]_vars

(* ========================= properties: creation ======================= *)
\* C1 as stated, read for accepted requests: a create_export carrying a key
\* K that was answered before returns the id it was answered with, adds no
\* task and schedules no run whenever the task of that answer is unexpired
\* (now <= expires_at), and creates a new task under a new id, remapping K,
\* once it has expired.
C1_SameKeyWhileUnexpired ==
    /\ [](\A k \in Keys, html \in Docs :
            (/\ issued[k] # NoIssue
             /\ Len(html) <= MAX_HTML_SIZE
             /\ now <= issued[k].expires_at)
            => create_export_reply(k, html).body.id = issued[k].id)
    /\ [][\A k \in Keys, html \in Docs, options \in OptionSets :
            (/\ issued[k] # NoIssue
             /\ Len(html) <= MAX_HTML_SIZE
             /\ create_export(k, html, options))
            => LET reply == create_export_reply(k, html)
               IN  IF now <= issued[k].expires_at
                   THEN /\ export_tasks' \subseteq export_tasks
                        /\ nextId' = nextId
                        /\ bg' = bg
                   ELSE /\ reply.body.id # issued[k].id
                        /\ reply.body.id \in export_tasks' \ export_tasks
                        /\ idempotency_records'[k] = reply.body.id
                        /\ bg'[reply.body.id].pc = "scheduled"]_vars

\* C1, amended: a create_export carrying a key K that was answered before
\* returns the id it was answered with, adds no task and schedules no run
\* whenever the task of that answer is unexpired and still in the store (not
\* removed by delete_export); once that task has expired, it creates a new
\* task under a new id, schedules its run and remaps K to it.
C1_SameKeyWhileStored ==
    /\ [](\A k \in Keys, html \in Docs :
            (/\ issued[k] # NoIssue
             /\ Len(html) <= MAX_HTML_SIZE
             /\ now <= issued[k].expires_at
             /\ issued[k].id \in export_tasks)
            => create_export_reply(k, html).body.id = issued[k].id)
    /\ [][\A k \in Keys, html \in Docs, options \in OptionSets :
            (/\ issued[k] # NoIssue
             /\ Len(html) <= MAX_HTML_SIZE
             /\ create_export(k, html, options))
            => LET reply == create_export_reply(k, html)
               IN  /\ (now <= issued[k].expires_at /\ issued[k].id \in export_tasks)
                       => /\ export_tasks' \subseteq export_tasks
                          /\ nextId' = nextId
                          /\ bg' = bg
                   /\ now > issued[k].expires_at
                       => /\ reply.body.id # issued[k].id
                          /\ reply.body.id \in export_tasks' \ export_tasks
                          /\ idempotency_records'[k] = reply.body.id
                          /\ bg'[reply.body.id].pc = "scheduled"]_vars

\* A second create_export with the key was answered with the first task, at
\* the last instant at which that task is unexpired.
C1_Witness ==
    \E k \in Keys :
       /\ issued[k].replayed
       /\ issued[k].id \in export_tasks
       /\ now = issued[k].expires_at

(* ========================= properties: lifecycle ====================== *)
\* C2: the status of a task changes only along Queued->Processing,
\* Processing->Completed, Processing->Failed, Completed->Processing, or to
\* Expired when now > expires_at; a step of the model that runs a whole
\* unsuspended run composes these (Queued->Completed, Queued->Failed,
\* Completed->Failed).  No step leaves Failed for a status other than
\* Expired, and no step leaves Expired.
C2_StatusTransitions ==
    [][\A id \in DOMAIN task \cap DOMAIN task' :
          LET a == task[id].status
              b == task'[id].status
          IN  a # b =>
                \/ <<a, b>> \in { <<"queued", "processing">>,
                                  <<"processing", "completed">>,
                                  <<"processing", "failed">>,
                                  <<"completed", "processing">>,
                                  <<"queued", "completed">>,
                                  <<"queued", "failed">>,
                                  <<"completed", "failed">> }
                \/ b = "expired" /\ now > task[id].expires_at]_vars

(* ========================= properties: archive ======================== *)
\* C3: download_archive answers with the archive file only for a stored,
\* unexpired, Completed task, and then with the complete archive; an
\* unknown id gets NotFound, an expired task Gone, a Queued or Processing
\* task Conflict, and no reply other than the 200 carries a file.
C3_ArchiveOnlyWhenCompleted ==
    \A id \in Ids :
       LET reply == download_archive_reply(id)
       IN  /\ id \notin export_tasks => reply.code = 404
           /\ (id \in export_tasks /\ Expired(id)) => reply.code = 410
           /\ (id \in export_tasks /\ ~Expired(id)
                 /\ task[id].status \in {"queued", "processing"}) => reply.code = 409
           /\ reply.code = 200 =>
                 /\ id \in export_tasks
                 /\ ~Expired(id)
                 /\ task[id].status = "completed"
                 /\ reply.body = <<"file", "complete">>
           /\ reply.code # 200 => reply.body \in {<<>>, <<"no archive">>}

\* A retry run is in progress on an unexpired task whose previous archive is
\* on disk, and the archive request is refused.
C3_Witness ==
    \E id \in export_tasks :
       /\ ~Expired(id)
       /\ task[id].status = "processing"
       /\ zip[id] # "absent"
       /\ download_archive_reply(id).code = 409

(* ========================= properties: retry gate ===================== *)
\* C4: a retry run is started only for a task that is stored, unexpired and
\* Completed, over indices whose asset is Failed; a retry request on an
\* expired task gets Gone, on a Queued, Processing or Failed task Conflict,
\* and in both cases images, progress and stats of the task (and the
\* archive, the working directory and the runs) stay as they were.
C4_RetryAdmission ==
    /\ [](\A id \in export_tasks, req \in {"all"} \cup Requested :
            LET reply == IF req = "all" THEN retry_failed_images_reply(id)
                         ELSE retry_single_image_reply(id, req)
            IN  /\ Expired(id) => reply.code = 410
                /\ (~Expired(id) /\ task[id].status \in {"queued", "processing", "failed"})
                      => reply.code = 409
                /\ reply.code = 0 => (~Expired(id) /\ task[id].status = "completed"))
    /\ [][\A id \in Ids :
            /\ (Len(retry'[id]) > Len(retry[id])) =>
                  /\ id \in export_tasks
                  /\ ~Expired(id)
                  /\ task[id].status = "completed"
                  /\ \A k \in DOMAIN retry'[id][Len(retry'[id])].retry_indices :
                        task[id].images[retry'[id][Len(retry'[id])].retry_indices[k]].status
                           = "failed"
            /\ \A req \in {"all"} \cup Requested :
                  (/\ id \in export_tasks
                   /\ (Expired(id) \/ task[id].status # "completed")
                   /\ IF req = "all" THEN retry_failed_images(id)
                      ELSE retry_single_image(id, req))
                  => /\ task'[id].images = task[id].images
                     /\ task'[id].progress = task[id].progress
                     /\ task'[id].stats = task[id].stats
                     /\ retry' = retry /\ zip' = zip /\ dir' = dir]_vars

\* An unexpired Failed task that has Failed assets: the retry of all of them
\* is refused with Conflict.
C4_Witness ==
    \E id \in export_tasks :
       /\ ~Expired(id)
       /\ task[id].status = "failed"
       /\ \E i \in DOMAIN task[id].images : task[id].images[i].status = "failed"
       /\ retry_failed_images_reply(id).code = 409

\* C5: retry_failed_images on a stored, unexpired, Completed task without a
\* Failed asset answers 200 with the current manifest and changes nothing:
\* not the task (status, images, progress, stats, rendered document), not
\* the archive, not the working directory, and it starts no run.
C5_RetryNothingFailed ==
    /\ [](\A id \in export_tasks :
            (/\ ~Expired(id)
             /\ task[id].status = "completed"
             /\ \A i \in DOMAIN task[id].images : task[id].images[i].status # "failed")
            => retry_failed_images_reply(id) = Reply(200, Manifest(task[id])))
    /\ [][\A id \in Ids :
            (/\ id \in export_tasks
             /\ ~Expired(id)
             /\ task[id].status = "completed"
             /\ \A i \in DOMAIN task[id].images : task[id].images[i].status # "failed"
             /\ retry_failed_images(id))
            => /\ task' = task
               /\ zip' = zip
               /\ dir' = dir
               /\ retry' = retry
               /\ export_tasks' = export_tasks]_vars

\* A Completed, unexpired task with assets, none of them Failed.
C5_Witness ==
    \E id \in export_tasks :
       /\ ~Expired(id)
       /\ task[id].status = "completed"
       /\ task[id].images # <<>>
       /\ \A i \in DOMAIN task[id].images : task[id].images[i].status = "downloaded"
       /\ retry_failed_images_reply(id) = Reply(200, Manifest(task[id]))

(* ========================= properties: runs =========================== *)
\* C6: a step that ends a full run or a retry run leaves the task Completed,
\* with error_message unset and every Failed asset carrying its error,
\* unless a packaging step failed: the working directory was gone, or
\* writing index.html, manifest.json or the archive raised (the task's
\* error_message is then that I/O error).  The outcome of an asset is never
\* the reason.
C6_AssetFailuresDoNotAbort ==
    [][\A id \in DOMAIN task \cap DOMAIN task' :
          LET full == bg[id].pc \in {"scheduled", "gather"} /\ bg'[id].pc = "done"
              resumed == Len(retry'[id]) < Len(retry[id])
              inline ==
                 /\ id \in export_tasks
                 /\ retry'[id] = retry[id]
                 /\ \/ retry_failed_images_reply(id).code = 0 /\ retry_failed_images(id)
                    \/ \E url \in Requested :
                          /\ retry_single_image_reply(id, url).code = 0
                          /\ retry_single_image(id, url)
              t == task'[id]
          IN  (full \/ resumed \/ inline) =>
                IF t.status = "completed"
                THEN /\ t.error_message = None
                     /\ zip'[id] = "complete"
                     /\ \A i \in DOMAIN t.images :
                           /\ t.images[i].status \in {"downloaded", "failed", "pending"}
                           /\ t.images[i].status = "failed"
                                 => t.images[i].error \notin {None, ""}
                ELSE \/ ~dir[id] /\ bg[id].pc # "scheduled"
                     \/ t.error_message \in {"[Errno 2] No such file or directory",
                                             "[Errno 28] No space left on device"}]_vars

\* A run has ended Completed although every asset of the task failed.
C6_Witness ==
    \E id \in export_tasks :
       /\ task[id].status = "completed"
       /\ Len(task[id].images) = 2
       /\ \A i \in DOMAIN task[id].images :
             task[id].images[i].status = "failed" /\ task[id].images[i].error # None
       /\ task[id].error_message = None
       /\ zip[id] = "complete"

(* ===================== properties: download_single_image ============== *)
\* C7: for every sequence of attempt outcomes, download_single_image makes
\* between 1 and 1 + IMAGE_DOWNLOAD_RETRY_COUNT attempts and reports their
\* number in retry_count; every attempt before the last met a timeout, a
\* transport error, or an HTTP status >= 500 or 429; an attempt that meets
\* one of these is the last only when the budget is used up; an attempt
\* that meets another HTTP error status is the last and the record is
\* Failed; a Failed record's error is the reason of the last attempt.
C7_FetchRetryPolicy ==
    fetch.out.status # "downloading" =>
       LET out == fetch.out
           n == out.retry_count
           again(r) == \/ r.kind \in {"timeout", "neterr"}
                       \/ r.kind = "http" /\ (r.code >= 500 \/ r.code = 429)
           reason(r) == CASE r.kind = "timeout" -> "Download timeout"
                          [] r.kind = "http" -> "HTTP " \o ToString(r.code)
                          [] r.kind = "neterr" -> "Request error: connection reset"
                          [] r.kind = "exc" -> "unexpected error"
                          [] r.kind = "ok" -> "[Errno 2] No such file or directory"
       IN  /\ n \in 1..(1 + IMAGE_DOWNLOAD_RETRY_COUNT)
           /\ \A m \in 1..(n - 1) : again(fetch.rs[m])
           /\ again(fetch.rs[n]) => n = 1 + IMAGE_DOWNLOAD_RETRY_COUNT
           /\ (fetch.rs[n].kind = "http" /\ ~again(fetch.rs[n])) => out.status = "failed"
           /\ out.status \in {"downloaded", "failed"}
           /\ out.status = "downloaded" <=> (fetch.rs[n].kind = "ok" /\ fetch.dirOk)
           /\ out.status = "failed" => out.error = reason(fetch.rs[n])

\* A fetch that met a 500, then a 429, then a 404: three attempts, the last
\* reason reported.
C7_Witness ==
    /\ fetch.rs = <<Http(500), Http(429), Http(404)>>
    /\ fetch.out.status = "failed"
    /\ fetch.out.retry_count = 3
    /\ fetch.out.error = "HTTP 404"

(* ========================= properties: rewrite ======================== *)
\* C8: in the rendered document of a Completed task the reference of every
\* Downloaded asset is replaced by its local filename, the reference of a
\* Failed asset is kept under rewrite_failed_images = keep_remote and is
\* absent under rewrite_failed_images = remove.
C8_RewriteAfterFetch ==
    \A id \in DOMAIN task :
       task[id].status = "completed" =>
          \A i \in DOMAIN task[id].images :
             LET image == task[id].images[i]
                 doc == Range(task[id].processed_html)
                 policy == task[id].options.rewrite_failed_images
             IN  /\ image.status = "downloaded"
                       => (image.url \notin doc /\ image.filename \in doc)
                 /\ (image.status = "failed" /\ policy = "keep_remote")
                       => image.url \in doc
                 /\ (image.status = "failed" /\ policy = "remove")
                       => image.url \notin doc

(* ========================= properties: ordinals ======================= *)
\* C9: in every state, an asset at index i (1-based; the code's index i-1)
\* that has a filename has "images/" and the two-digit ordinal i in it, no
\* two assets of a task share a filename, inline assets precede remote
\* ones; and once the full run has initialised the list, no step changes
\* its length or the reference at any index.
C9_OrdinalStability ==
    /\ [](\A id \in DOMAIN task :
            LET images == task[id].images
            IN  /\ \A i \in DOMAIN images :
                      images[i].filename # None =>
                         \E ext \in {".png", ".gif", ".jpg"} :
                            images[i].filename = "images/0" \o ToString(i) \o ext
                /\ \A i, j \in DOMAIN images :
                      (i # j /\ images[i].filename # None)
                         => images[i].filename # images[j].filename
                /\ \A i, j \in DOMAIN images :
                      (i < j /\ images[j].url \in DataSyms) => images[i].url \in DataSyms)
    /\ [][\A id \in DOMAIN task \cap DOMAIN task' :
            bg[id].pc # "scheduled" =>
               [i \in DOMAIN task'[id].images |-> task'[id].images[i].url]
                  = [i \in DOMAIN task[id].images |-> task[id].images[i].url]]_vars

\* After the retry of the single asset at index 2 of a task with an inline
\* and a remote asset: the remote asset is stored under ordinal 2.
C9_Witness ==
    \E id \in export_tasks :
       /\ task[id].status = "completed"
       /\ Len(task[id].images) = 2
       /\ task[id].progress = [done |-> 1, total |-> 1]
       /\ task[id].images[1].url \in DataSyms
       /\ task[id].images[2].status = "downloaded"
       /\ task[id].images[2].filename = "images/02.gif"

(* ==================== properties: retry without archive =============== *)
\* C10 as stated: every retry request on a stored, unexpired, Completed
\* task whose archive is absent is answered NotFound and changes nothing.
C10_RetryWithoutArchive ==
    /\ [](\A id \in export_tasks, req \in {"all"} \cup Requested :
            (~Expired(id) /\ task[id].status = "completed" /\ zip[id] = "absent")
            => (IF req = "all" THEN retry_failed_images_reply(id)
                ELSE retry_single_image_reply(id, req)).code = 404)
    /\ [][\A id \in Ids, req \in {"all"} \cup Requested :
            (/\ id \in export_tasks
             /\ ~Expired(id) /\ task[id].status = "completed" /\ zip[id] = "absent"
             /\ IF req = "all" THEN retry_failed_images(id)
                ELSE retry_single_image(id, req))
            => (task' = task /\ retry' = retry /\ zip' = zip /\ dir' = dir)]_vars

\* C10, amended: on a stored, unexpired, Completed task whose archive is
\* absent, a retry of all Failed assets when there is one, and a retry of
\* one asset that is in the list and Failed, are answered NotFound; every
\* retry request on such a task starts no run and leaves the task (status
\* Completed, error_message, images, progress, stats), the archive and the
\* working directory as they were.
C10_RetryWithoutArchiveWhenFailed ==
    /\ [](\A id \in export_tasks :
            (~Expired(id) /\ task[id].status = "completed" /\ zip[id] = "absent")
            => /\ (\E i \in DOMAIN task[id].images : task[id].images[i].status = "failed")
                     => retry_failed_images_reply(id).code = 404
               /\ \A i \in DOMAIN task[id].images :
                     (/\ task[id].images[i].status = "failed"
                      /\ \A j \in 1..(i - 1) :
                            task[id].images[j].url # task[id].images[i].url)
                     => retry_single_image_reply(id, task[id].images[i].url).code = 404)
    /\ [][\A id \in Ids, req \in {"all"} \cup Requested :
            (/\ id \in export_tasks
             /\ ~Expired(id) /\ task[id].status = "completed" /\ zip[id] = "absent"
             /\ IF req = "all" THEN retry_failed_images(id)
                ELSE retry_single_image(id, req))
            => (task' = task /\ retry' = retry /\ zip' = zip /\ dir' = dir)]_vars

\* A Completed, unexpired task with a Failed asset whose archive is gone:
\* the retry is answered NotFound.
C10_Witness ==
    \E id \in export_tasks :
       /\ ~Expired(id)
       /\ task[id].status = "completed"
       /\ zip[id] = "absent"
       /\ \E i \in DOMAIN task[id].images : task[id].images[i].status = "failed"
       /\ retry_failed_images_reply(id) = Reply(404, <<"no archive">>)

(* ========================= properties: size ceiling =================== *)
\* C11: create_export accepts a document of exactly MAX_HTML_SIZE and
\* answers PayloadTooLarge (422) to one that is one unit longer; a rejected
\* request adds no task, records no idempotency key, schedules no run.
C11_SizeCeiling ==
    /\ [](\A k \in Keys \cup {None}, html \in Docs :
            /\ Len(html) = MAX_HTML_SIZE => create_export_reply(k, html).code = 202
            /\ Len(html) = MAX_HTML_SIZE + 1 => create_export_reply(k, html).code = 422)
    /\ [][\A k \in Keys \cup {None}, html \in Docs, options \in OptionSets :
            (Len(html) > MAX_HTML_SIZE /\ create_export(k, html, options))
            => /\ export_tasks' = export_tasks
               /\ task' = task
               /\ idempotency_records' = idempotency_records
               /\ nextId' = nextId
               /\ bg' = bg]_vars

\* A task whose document has exactly the ceiling size is in the store.
C11_Witness ==
    \E id \in export_tasks :
       /\ Len(task[id].html) = MAX_HTML_SIZE
       /\ \E html \in Docs : Len(html) = MAX_HTML_SIZE + 1

(* ========================= properties: deletion ======================= *)
\* C12: delete_export of a stored task removes it from the store together
\* with its archive and its working directory; from then on every request
\* for that id (status, archive, manifest, document, both retries, delete)
\* answers NotFound, and the id never comes back; delete_export of an id
\* that is not in the store answers NotFound and changes nothing.
C12_DeleteRemoves ==
    /\ [](\A id \in Ids \ export_tasks :
            /\ get_export_status_reply(id) = Reply(404, <<>>)
            /\ download_archive_reply(id) = Reply(404, <<>>)
            /\ get_manifest_reply(id) = Reply(404, <<>>)
            /\ get_export_document_reply(id) = Reply(404, <<>>)
            /\ retry_failed_images_reply(id) = Reply(404, <<>>)
            /\ \A url \in Requested : retry_single_image_reply(id, url) = Reply(404, <<>>)
            /\ delete_export_reply(id) = Reply(404, <<>>))
    /\ [][\A id \in Ids :
            /\ (id \in export_tasks /\ delete_export(id))
               => /\ delete_export_reply(id).code = 204
                  /\ export_tasks' = export_tasks \ {id}
                  /\ zip'[id] = "absent"
                  /\ dir'[id] = FALSE
            /\ (id \notin export_tasks /\ delete_export(id)) => UNCHANGED vars
            /\ (id < nextId /\ id \notin export_tasks) => id \notin export_tasks']_vars

\* Task 1 was created and completed its run, and is no longer in the store
\* at a time when nothing can have expired: it was deleted, and its archive
\* and directory are gone.
C12_Witness ==
    /\ now = 0
    /\ nextId > 1
    /\ 1 \notin export_tasks
    /\ bg[1].pc = "done"
    /\ zip[1] = "absent"
    /\ dir[1] = FALSE

(* ========================= properties: expiry sweep =================== *)
\* C13: right after a create_export that passes the size check the store
\* holds no task whose expires_at is earlier than the time of the call, the
\* archive and the working directory of every task the call removed are
\* gone, and no idempotency key maps to a task the call removed.
C13_SweepOnCreation ==
    [][\A k \in Keys \cup {None}, html \in Docs, options \in OptionSets :
          (Len(html) <= MAX_HTML_SIZE /\ create_export(k, html, options))
          => LET removed == export_tasks \ export_tasks'
             IN  /\ \A i \in export_tasks' : ~(task'[i].expires_at < now)
                 /\ \A i \in removed : zip'[i] = "absent" /\ dir'[i] = FALSE
                 /\ \A key \in Keys : idempotency_records'[key] \notin removed]_vars

\* A create_export without a key has swept the expired task that key k1 was
\* issued for: the key is unmapped, the task is out of the store, and the
\* newly created task is in it.
C13_Witness ==
    /\ issued["k1"].id # 0
    /\ issued["k1"].id \notin export_tasks
    /\ issued["k1"].expires_at < now
    /\ idempotency_records["k1"] = 0
    /\ export_tasks # {}
    /\ zip[issued["k1"].id] = "absent"
    /\ dir[issued["k1"].id] = FALSE

(* ========================= properties: single-asset retry ============= *)
\* C14: retry_single_image on a Completed, unexpired task takes as target
\* the asset whose original reference equals the requested string; with no
\* such asset it answers NotFound, with a target that is not Failed it
\* answers Conflict, and in both cases no run starts and the task is
\* unchanged; otherwise the run it starts retries exactly that one index.
C14_SingleRetryTarget ==
    /\ [](\A id \in export_tasks, url \in Requested :
            (task[id].status = "completed" /\ ~Expired(id))
            => LET images == task[id].images
                   matches == {i \in DOMAIN images : images[i].url = url}
                   reply == retry_single_image_reply(id, url)
               IN  /\ matches = {} => reply = Reply(404, <<"no image">>)
                   /\ \A i \in matches :
                         /\ (\A j \in matches : i <= j) => target_index(images, url) = i
                         /\ ((\A j \in matches : i <= j) /\ images[i].status # "failed")
                            => reply = Reply(409, <<"not failed">>)
                         /\ ((\A j \in matches : i <= j) /\ images[i].status = "failed")
                            => reply.code \notin {404, 409})
    /\ [][\A id \in export_tasks, url \in Requested :
            (task[id].status = "completed" /\ ~Expired(id) /\ retry_single_image(id, url))
            => LET images == task[id].images
                   target == target_index(images, url)
               IN  IF target = 0 \/ images[target].status # "failed"
                   THEN UNCHANGED vars
                   ELSE /\ task'[id].progress.total = 1
                        /\ \A j \in DOMAIN images \ {target} :
                              task'[id].images[j] = images[j]
                        /\ \/ /\ retry'[id] = retry[id]
                              /\ task'[id].images[target].status \in {"downloaded", "failed"}
                           \/ /\ Len(retry'[id]) = Len(retry[id]) + 1
                              /\ retry'[id][Len(retry'[id])].retry_indices = <<target>>
                              /\ task'[id].status = "processing"]_vars

\* A retry run for the single index 2 is suspended on a task with two
\* assets, and the other asset is not being retried.
C14_Witness ==
    \E id \in export_tasks :
       /\ Len(task[id].images) = 2
       /\ Len(retry[id]) = 1
       /\ retry[id][1].retry_indices = <<2>>
       /\ task[id].progress.total = 1
       /\ task[id].images[1].status # "downloading"

(* ========================= properties: status visibility ============== *)
\* C15: get_export_status sets the status to Expired before it answers
\* whenever now > expires_at, and its answer carries progress only with the
\* status Processing, stats only with Processing or Completed, and error
\* only with Failed.
C15_StatusVisibility ==
    /\ [](\A id \in export_tasks :
            LET r == get_export_status_reply(id)
            IN  /\ r.code = 200
                /\ r.body.status = (IF now > task[id].expires_at THEN "expired"
                                    ELSE task[id].status)
                /\ r.body.progress # <<>> <=> r.body.status = "processing"
                /\ r.body.progress # <<>> => r.body.progress = <<task[id].progress>>
                /\ r.body.stats # <<>> <=> r.body.status \in {"processing", "completed"}
                /\ r.body.stats # <<>> => r.body.stats = <<task[id].stats>>
                /\ r.body.error # None => /\ r.body.status = "failed"
                                          /\ r.body.error = task[id].error_message)
    /\ [][\A id \in export_tasks :
            get_export_status(id)
            => /\ now > task[id].expires_at => task'[id].status = "expired"
               /\ ~(now > task[id].expires_at) => task' = task]_vars

\* A stored task past its expiry has the status Expired while its progress
\* and its stats are those of a run, which the answer withholds.
C15_Witness ==
    \E id \in export_tasks :
       /\ now > task[id].expires_at
       /\ task[id].status = "expired"
       /\ task[id].progress.total > 0
       /\ task[id].stats.images_found > 0
       /\ get_export_status_reply(id).body.progress = <<>>
       /\ get_export_status_reply(id).body.stats = <<>>

(* ========================= properties: manifest and document ========== *)
\* C16: for a stored task get_manifest succeeds exactly when the status is
\* Completed or Processing and answers Conflict in every other status;
\* get_export_document succeeds exactly when the status is Completed and a
\* rendered document is stored; every Completed task has a rendered
\* document stored.
C16_ManifestAndDocument ==
    /\ \A id \in export_tasks :
          LET m == get_manifest_reply(id)
              d == get_export_document_reply(id)
          IN  /\ m.code = 200 <=> task[id].status \in {"completed", "processing"}
              /\ m.code = 200 => m.body = Manifest(task[id])
              /\ m.code # 200 => m = Reply(409, <<>>)
              /\ d.code = 200 <=> (task[id].status = "completed"
                                   /\ task[id].processed_html # <<>>)
              /\ d.code = 200 => d.body = task[id].processed_html
              /\ task[id].status # "completed" => d = Reply(409, <<>>)
    /\ \A id \in DOMAIN task :
          task[id].status = "completed" => task[id].processed_html # <<>>

\* A stored Completed task has its rendered document, and both requests
\* succeed on it.
C16_Witness ==
    \E id \in export_tasks :
       /\ task[id].status = "completed"
       /\ task[id].images # <<>>
       /\ get_manifest_reply(id).code = 200
       /\ get_export_document_reply(id) = Reply(200, task[id].processed_html)

(* ========================= properties: stats ========================== *)
\* C17: whenever a task is Completed, after the full run and after every
\* retry, stats.images_found is the number of its assets,
\* stats.images_downloaded the number of Downloaded assets and
\* stats.images_failed the number of Failed assets; when download_images
\* was set, images_downloaded + images_failed = images_found.
C17_StatsAgree ==
    \A id \in DOMAIN task :
       task[id].status = "completed"
       => LET images == task[id].images
              stats == task[id].stats
              with(st) == Cardinality({i \in DOMAIN images : images[i].status = st})
          IN  /\ stats.images_found = Len(images)
              /\ stats.images_downloaded = with("downloaded")
              /\ stats.images_failed = with("failed")
              /\ task[id].options.download_images
                 => stats.images_downloaded + stats.images_failed = stats.images_found

\* A Completed task with download_images set has one Downloaded and one
\* Failed asset, the Failed one after a retry of it.
C17_Witness ==
    \E id \in DOMAIN task :
       /\ task[id].status = "completed"
       /\ task[id].options.download_images
       /\ task[id].stats = [images_found |-> 2, images_downloaded |-> 1,
                            images_failed |-> 1]
       /\ task[id].progress.total = 1

(* ========================= properties: extraction ===================== *)
\* C18: for every document the remote-reference sequence and the
\* inline-payload sequence that the extractors return each contain no
\* duplicate entry, the remote references are in the order of their first
\* occurrence in the document, and no remote reference starts with data:.
C18_Extraction ==
    extraction.done
    => LET html == extraction.html
           first(s) == CHOOSE i \in DOMAIN html :
                          html[i] = s /\ \A j \in DOMAIN html : html[j] = s => i <= j
           NoDuplicate(seq) == \A a, b \in DOMAIN seq : seq[a] = seq[b] => a = b
       IN  /\ NoDuplicate(extraction.order)
           /\ NoDuplicate(extraction.found)
           /\ \A a, b \in DOMAIN extraction.order :
                 a < b => first(extraction.order[a]) < first(extraction.order[b])
           /\ \A a \in DOMAIN extraction.order : extraction.order[a] \notin DataSyms

(* ========================= properties: asset cap ====================== *)
\* C19: for every document the asset list has at most MAX_IMAGES_COUNT
\* entries; the inline payloads come first, in the order of discovery, and
\* are cut only when they alone reach the cap; the remote references get the
\* slots that remain, so a remote reference is among the assets only if
\* every extracted inline payload is.
C19_AssetCap ==
    extraction.done
    => LET found == extraction.found
           order == extraction.order
           images == extraction.images
           kept == IF Len(found) < MAX_IMAGES_COUNT THEN Len(found) ELSE MAX_IMAGES_COUNT
           slots == MAX_IMAGES_COUNT - kept
           rest == IF Len(order) < slots THEN Len(order) ELSE slots
       IN  /\ Len(images) <= MAX_IMAGES_COUNT
           /\ Len(images) = kept + rest
           /\ \A i \in 1..kept : images[i] = found[i]
           /\ \A i \in 1..rest : images[kept + i] = order[i]
           /\ (\E i \in DOMAIN images : images[i] \in RemoteSyms)
              => /\ Len(found) < MAX_IMAGES_COUNT
                 /\ \A j \in DOMAIN found : images[j] = found[j]

\* A document with one inline payload and two remote references: the
\* payload and one remote reference are the assets, the other remote
\* reference got no slot.
C19_Witness ==
    /\ extraction.done
    /\ Len(extraction.found) = 1
    /\ Len(extraction.order) = 2
    /\ extraction.images = <<extraction.found[1], extraction.order[1]>>

(* ========================= properties: one run per task =============== *)
\* C20: at most one orchestrator run (the process_export_task of the task or
\* a perform_retry_images on it) is scheduled or suspended on a task at any
\* time, whatever the interleaving of the requests at the await points; the
\* step that admits a retry finds the task Completed with no run on it and
\* leaves it Processing, and the step that starts process_export_task
\* leaves it Processing.
C20_OneRunPerTask ==
    /\ [](\A id \in Ids :
            (IF bg[id].pc \in {"scheduled", "gather"} THEN 1 ELSE 0) + Len(retry[id]) <= 1)
    /\ [][\A id \in Ids :
            /\ Len(retry'[id]) > Len(retry[id])
               => /\ task[id].status = "completed"
                  /\ retry[id] = <<>>
                  /\ bg[id].pc \notin {"scheduled", "gather"}
                  /\ task'[id].status = "processing"
            /\ (bg'[id].pc = "gather" /\ bg[id].pc # "gather")
               => /\ bg[id].pc = "scheduled"
                  /\ retry[id] = <<>>
                  /\ task'[id].status = "processing"]_vars

\* A retry run is suspended on a task whose process_export_task has ended;
\* the task is Processing, so that a further retry request is refused.
C20_Witness ==
    \E id \in export_tasks :
       /\ bg[id].pc = "done"
       /\ Len(retry[id]) = 1
       /\ task[id].status = "processing"
       /\ ~Expired(id)
       /\ retry_failed_images_reply(id).code = 409

(* ========================= properties: failing retry ================== *)
\* C21: a retry run that raises an exception after it has set the status to
\* Processing leaves the task Failed with error_message the text of the
\* exception; no exception raised in a retry run leaves the task Processing.
\* Stated for every suspended retry run, every way its awaited fetch can
\* return and every packaging fault: when the run then reaches its end by an
\* exception, the task it leaves is Failed with that exception's text.
C21_RetryExceptionFails ==
    \A id \in Ids : \A n \in DOMAIN retry[id] : \A rs \in RespSeqs, fault \in Faults :
       LET lp == retry_resumes(id, n, rs)
           end == RetryTail(lp.t, lp.results, zip[id], dir[id], fault)
       IN  (lp.k > Len(retry[id][n].retry_indices) /\ end.exc # "none")
           => /\ AfterRetry(end).status = "failed"
              /\ AfterRetry(end).error_message = end.msg

(* ========================= properties: progress ======================= *)
\* C22: progress.done never decreases within a run and 0 <= done <= total
\* always; a retry run starts with total the size of its retry subset and
\* done 0, and adds one to done for each targeted asset it has resolved;
\* when a run that fetches (download_images set, at least one asset) has
\* resolved all its assets, done = total.
C22_ProgressCounters ==
    /\ [](\A id \in DOMAIN task :
            LET progress == task[id].progress
            IN  /\ 0 <= progress.done /\ progress.done <= progress.total
                /\ \A n \in DOMAIN retry[id] :
                      /\ progress.total = Len(retry[id][n].retry_indices)
                      /\ progress.done = retry[id][n].k - 1
                /\ (/\ bg[id].pc \notin {"scheduled", "gather"}
                    /\ retry[id] = <<>>
                    /\ task[id].options.download_images
                    /\ task[id].images # <<>>)
                   => progress.done = progress.total)
    /\ [][\A id \in DOMAIN task \cap DOMAIN task' :
            LET failed == IndicesWhere(task[id].images, "failed", 1)
                all == retry_failed_images_reply(id).code = 0 /\ retry_failed_images(id)
                one == \E url \in Requested :
                          /\ retry_single_image_reply(id, url).code = 0
                          /\ retry_single_image(id, url)
            IN  /\ all => task'[id].progress.total = Len(failed)
                /\ one => task'[id].progress.total = 1
                /\ (all \/ one) => (retry'[id] = <<>>
                                    => task'[id].progress.done = task'[id].progress.total)
                /\ ~(all \/ one) => task'[id].progress.done >= task[id].progress.done]_vars

\* A retry run over two assets is suspended on the second: one of two done.
C22_Witness ==
    \E id \in DOMAIN task :
       /\ Len(retry[id]) = 1
       /\ Len(retry[id][1].retry_indices) = 2
       /\ task[id].progress = [done |-> 1, total |-> 2]

(* ========================= properties: retry frame ==================== *)
\* C23: a retry run over the indices R resolves the assets at R one at a
\* time in ascending order of index, and changes no asset record outside R
\* (status, filename, error, retry_count) nor the document and the options
\* of the task.
C23_RetryFrame ==
    /\ [](\A id \in Ids : \A n \in DOMAIN retry[id] :
            LET run == retry[id][n]
            IN  /\ \A a, b \in DOMAIN run.retry_indices :
                      a < b => run.retry_indices[a] < run.retry_indices[b]
                /\ run.k \in DOMAIN run.retry_indices
                /\ task[id].images[run.retry_indices[run.k]].url \in RemoteSyms
                /\ Len(run.results) = run.k - 1
                /\ \A m \in DOMAIN run.results :
                      /\ run.results[m][1] = run.retry_indices[m]
                      /\ run.results[m][2].url = task[id].images[run.retry_indices[m]].url
                      /\ run.results[m][2].status \in {"downloaded", "failed"})
    /\ [][\A id \in DOMAIN task \cap DOMAIN task' :
            LET images == task[id].images
                all == retry_failed_images_reply(id).code = 0 /\ retry_failed_images(id)
                one(url) == /\ retry_single_image_reply(id, url).code = 0
                            /\ retry_single_image(id, url)
                R == IF retry[id] # <<>>
                     THEN {retry[id][1].retry_indices[m] :
                              m \in DOMAIN retry[id][1].retry_indices}
                     ELSE IF all THEN {i \in DOMAIN images : images[i].status = "failed"}
                     ELSE {i \in DOMAIN images :
                              \E url \in Requested :
                                 one(url) /\ i = target_index(images, url)}
            IN  /\ task'[id].html = task[id].html
                /\ task'[id].options = task[id].options
                /\ (retry[id] # <<>> \/ all \/ \E url \in Requested : one(url))
                   => /\ DOMAIN task'[id].images = DOMAIN images
                      /\ \A j \in DOMAIN images \ R : task'[id].images[j] = images[j]
                      /\ \A j \in DOMAIN images :
                            task'[id].images[j].url = images[j].url]_vars

\* A retry run over the indices 1 and 2 has resolved index 1 and is
\* suspended on index 2.
C23_Witness ==
    \E id \in Ids :
       /\ Len(retry[id]) = 1
       /\ retry[id][1].retry_indices = <<1, 2>>
       /\ retry[id][1].k = 2
       /\ retry[id][1].results[1][1] = 1

(* ========================= properties: retry that fails again ========= *)
\* C24: a retry run in which every targeted asset fails again, and which
\* raises no exception, ends with the task Completed, error_message unset,
\* the targeted assets Failed and the same Failed indices as before, so
\* that the same retry is admitted again.
C24_RetryFailsAgain ==
    /\ [](\A id \in Ids : \A n \in DOMAIN retry[id] : \A rs \in RespSeqs :
            LET run == retry[id][n]
                lp == retry_resumes(id, n, rs)
                end == RetryTail(lp.t, lp.results, zip[id], dir[id], "none")
                after == AfterRetry(end)
                failedIn(images) == {i \in DOMAIN images : images[i].status = "failed"}
            IN  (/\ lp.k > Len(run.retry_indices)
                 /\ end.exc = "none"
                 /\ \A m \in DOMAIN lp.results : lp.results[m][2].status = "failed")
                => /\ after.status = "completed"
                   /\ after.error_message = None
                   /\ end.zip = "complete"
                   /\ failedIn(after.images) = failedIn(task[id].images)
                   /\ \A m \in DOMAIN run.retry_indices :
                         run.retry_indices[m] \in failedIn(after.images))
    /\ [](\A id \in export_tasks :
            (/\ task[id].status = "completed"
             /\ ~Expired(id)
             /\ \E i \in DOMAIN task[id].images : task[id].images[i].status = "failed")
            => /\ task[id].error_message = None
               /\ retry_failed_images_reply(id) = Reply(0, <<"run">>))
    /\ [][\A id \in DOMAIN task \cap DOMAIN task' :
            LET failedIn(images) == {i \in DOMAIN images : images[i].status = "failed"}
                all == retry_failed_images_reply(id).code = 0 /\ retry_failed_images(id)
                one == \E url \in Requested :
                          /\ retry_single_image_reply(id, url).code = 0
                          /\ retry_single_image(id, url)
                ends == \/ retry[id] # <<>> /\ retry'[id] = <<>>
                        \/ (all \/ one) /\ retry'[id] = <<>>
            IN  ends => /\ failedIn(task'[id].images) \subseteq failedIn(task[id].images)
                        /\ task'[id].status = "failed"
                           => task'[id].error_message = "[Errno 28] No space left on device"
                        /\ task'[id].status = "completed"
                           => task'[id].error_message = None /\ zip'[id] = "complete"]_vars

\* A stored Completed task after a retry of its one Failed asset, which
\* failed again: the retry is admitted anew.
C24_Witness ==
    \E id \in export_tasks :
       /\ task[id].status = "completed"
       /\ task[id].error_message = None
       /\ task[id].progress = [done |-> 1, total |-> 1]
       /\ Len(task[id].images) = 2
       /\ task[id].images[1].status = "downloaded"
       /\ task[id].images[2].status = "failed"
       /\ retry_failed_images_reply(id) = Reply(0, <<"run">>)

(* ========================= properties: archive replacement ============ *)
\* C25: a retry run replaces the archive atomically: whatever happens in
\* the run, a rewriting or packaging failure included, the archive path of
\* the task holds the complete previous archive or the complete new one,
\* never a missing or partially written one.  Stated on every step that
\* keeps the task in the store: a complete archive stays complete.
C25_AtomicArchiveReplacement ==
    [][\A id \in export_tasks \cap export_tasks' :
          zip[id] = "complete" => zip'[id] = "complete"]_vars

(* ========================= properties: error_message ================== *)
\* C26: in every reachable state a stored task has error_message set only
\* if its status is Failed.
C26_ErrorOnlyWhenFailed ==
    \A id \in export_tasks :
       task[id].error_message # None => task[id].status = "failed"

(* ========================= properties: expired content ================ *)
\* C27: once now > expires_at no request returns the task's content: the
\* archive, manifest and document requests for such a task do not succeed,
\* whether or not a request has already set the status to Expired.
C27_NoContentAfterExpiry ==
    \A id \in export_tasks :
       now > task[id].expires_at
       => /\ download_archive_reply(id).code # 200
          /\ get_manifest_reply(id).code # 200
          /\ get_export_document_reply(id).code # 200

(* ========================= properties: termination ==================== *)
\* The program under a scheduler that runs every scheduled coroutine and
\* with fetches that all return: weak fairness of the four coroutine steps.
\* For process_export_task and gather_returns, WF_vars(A) is written out as
\* []<>~ENABLED <<A>>_vars \/ []<><<A>>_vars with ENABLED <<A>>_vars replaced
\* by the guard of A (each of the two steps is possible whenever its guard
\* holds, and changes bg).
GatherComplete(id) ==
    /\ bg[id].pc = "gather"
    /\ \A i \in DOMAIN bg[id].results : bg[id].results[i].status # "downloading"

Fairness ==
    /\ \A id \in Ids : \/ []<>(bg[id].pc # "scheduled")
                        \/ []<><<process_export_task(id)>>_vars
    /\ \A id \in Ids : WF_vars(\E i \in 1..MAX_IMAGES_COUNT : fetch_returns(id, i))
    /\ \A id \in Ids : \/ []<>(~GatherComplete(id))
                        \/ []<><<gather_returns(id)>>_vars
    /\ \A id \in Ids : WF_vars(\E n \in 1..MaxRunning : retry_fetch_returns(id, n))

SpecLive == Spec /\ Fairness

\* C28: every run ends in a final status: a stored task that is Queued or
\* Processing eventually is Completed or Failed, or has been observed
\* Expired, or has left the store, when every fetch returns and the
\* scheduled run is run.
C28_RunsTerminate ==
    \A id \in Ids :
       (id \in export_tasks /\ task[id].status \in {"queued", "processing"})
       ~> (id \notin export_tasks \/ task[id].status \in {"completed", "failed", "expired"})

\* A stored task whose run has ended Failed, with no coroutine left.
C28_Witness ==
    \E id \in export_tasks :
       /\ task[id].status = "failed"
       /\ bg[id].pc = "done"
       /\ Running = {}

(* ========================= properties: storage of a Completed task ==== *)
\* C29: whenever a stored task is Completed its archive exists, complete,
\* and its working directory does not, after any interleaving of full
\* runs, retries that succeed or fail, deletes and sweeps of the program.
C29_CompletedStorage ==
    \A id \in export_tasks :
       task[id].status = "completed" => zip[id] = "complete" /\ dir[id] = FALSE

\* A stored task is Completed again after a retry run, with its archive
\* and without its working directory, while another task has been removed.
C29_Witness ==
    \E id \in export_tasks :
       /\ task[id].status = "completed"
       /\ Len(task[id].images) = 2
       /\ task[id].progress.total = 1
       /\ zip[id] = "complete"
       /\ dir[id] = FALSE
       /\ id > 1

(* ========================= properties: removal is final =============== *)
\* C30: once delete_export or cleanup_expired_tasks has removed a task, no
\* archive and no working directory of that id exists from then on, also
\* when a full run or a retry run of the task was suspended in a fetch at
\* the removal and resumes later.
C30_RemovalIsFinal ==
    /\ [](\A id \in Ids :
            (id < nextId /\ id \notin export_tasks)
            => zip[id] = "absent" /\ dir[id] = FALSE)
    /\ [][\A id \in Ids :
            (id < nextId /\ id \notin export_tasks)
            => /\ id \notin export_tasks'
               /\ zip'[id] = "absent"
               /\ dir'[id] = FALSE]_vars

\* A removed task whose full run is still suspended in its gather, with a
\* fetch that has returned after the removal of the directory.
C30_Witness ==
    \E id \in Ids :
       /\ id < nextId
       /\ id \notin export_tasks
       /\ bg[id].pc = "gather"
       /\ \E i \in DOMAIN bg[id].results : bg[id].results[i].status = "failed"
       /\ zip[id] = "absent"
       /\ dir[id] = FALSE

(* ========================= properties: a key after delete_export ====== *)
\* C31: a create_export answered with an existing task through its key
\* answers with a task that is in the store; and when the key is mapped to
\* a task that is no longer in the store (delete_export removed it and left
\* the mapping), an accepted create_export with the key answers with a new
\* id, never the removed task's, adds that task to the store, schedules its
\* run and remaps the key to it.
C31_KeyAfterDelete ==
    /\ [](\A k \in Keys, html \in Docs :
            LET reply == create_export_reply(k, html)
                old == idempotency_records[k]
            IN  /\ reply.body.replayed
                    => /\ reply.body.id \in export_tasks
                       /\ reply.body.id \in cleanup_expired_tasks.stored
                /\ (old # 0 /\ old \notin export_tasks /\ reply.code = 202)
                    => /\ ~reply.body.replayed
                       /\ reply.body.id # old
                       /\ reply.body.id \notin DOMAIN task)
    /\ [][\A k \in Keys, html \in Docs, options \in OptionSets :
            LET reply == create_export_reply(k, html)
                old == idempotency_records[k]
            IN  (/\ Len(html) <= MAX_HTML_SIZE
                 /\ create_export(k, html, options))
                => /\ reply.body.id \in export_tasks'
                   /\ idempotency_records'[k] = reply.body.id
                   /\ (old # 0 /\ old \notin export_tasks)
                       => /\ reply.body.id \in export_tasks' \ export_tasks
                          /\ reply.body.id = nextId /\ nextId' = nextId + 1
                          /\ bg'[reply.body.id].pc = "scheduled"
                          /\ task'[reply.body.id].status = "queued"
                          /\ old \notin export_tasks'
                          /\ popped'[k] = old]_vars

\* A create_export with the key has dropped the mapping to a removed task
\* that had not expired, and its new task is stored, mapped and scheduled.
C31_Witness ==
    \E k \in Keys :
       /\ popped[k] # 0
       /\ popped[k] \notin export_tasks
       /\ issued[k].id # popped[k]
       /\ ~issued[k].replayed
       /\ issued[k].id \in export_tasks
       /\ idempotency_records[k] = issued[k].id
       /\ bg[issued[k].id].pc = "scheduled"
       /\ now < issued[k].expires_at
=============================================================================
